---- MODULE Spec2Model ----
(***************************************************************************)
(* A model of Nelson's IRI client (class IRI, src/unnamed/part_000) and of *)
(* its peer list (class PeerList, src/src/node/peer-list.js).              *)
(*                                                                         *)
(* Strings that the code splits at ':' are modelled as the sequence of     *)
(* their ':'-separated tokens: the address "hx:14600" is <<"hx","14600">>, *)
(* the hostname "hx" is <<"hx">>, so that address.split(':')[0] is the     *)
(* one-token string <<Head(address)>> and === is equality of sequences.    *)
(* JavaScript's null is the empty token sequence, which is no string.      *)
(***************************************************************************)
EXTENDS Integers, Sequences, FiniteSets, TLC

\* ------------------------------------------------------------------ bounds
\* The number of start() calls.
MaxStarts == 1
\* The number of times the 15 s health interval fires.
MaxTicks == 2
\* The number of getNeighbors attempts one start() makes (it retries forever).
MaxAttempts == 3

\* The number of add calls on the peer list, those of loadDefaults included.
MaxAdds == 2
\* The number of load calls on the peer list.
MaxLoads == 1
\* The number of load calls that repeat an earlier one.
MaxReloads == 1
\* The number of clear calls whose db.remove is still queued.
MaxClears == 1
\* The number of update and markConnected calls on the peer list.
MaxUpdates == 1

\* --------------------------------------------------------------- constants
\* DEFAULT_OPTIONS.TCPPort
DefaultTCPPort == 15600
\* DEFAULT_OPTIONS.UDPPort
DefaultUDPPort == 14600
\* MAX_WEIGHT
MAX_WEIGHT == 4000000
\* CONNECTION_WEIGHT_MULTIPLIER
CONNECTION_WEIGHT_MULTIPLIER == 1

Null == <<>>

VARIABLES
    \* ---- class IRI
    isStarted,        \* this._isStarted (undefined, i.e. falsy, until start succeeds)
    isHealthy,        \* this.isHealthy
    staticNeighbors,  \* this.staticNeighbors
    ticker,           \* this.ticker: 0 is null, else the id of an interval timer
    timers,           \* the interval timers of the event loop that are still set
    starts,           \* the start() calls made so far, each with the state of its
                      \* promise and its getNeighbors attempts
    op,               \* the last call of another method, with the state of its
                      \* promise and the RPCs it has issued; the caller awaits
                      \* one call before it makes the next
    ticksInFlight,    \* health-check getNeighbors requests not yet answered
    \* ---- what an observer of the client sees
    healthLog,        \* the flag of each call of opts.onHealthCheck, in order
    lastHealth,       \* the arguments of its last call
    ended             \* end() has been called and start() has not been called since

iriVars == <<isStarted, isHealthy, staticNeighbors, ticker, timers, starts, op,
             ticksInFlight, healthLog, lastHealth, ended>>

VARIABLES
    \* ---- class PeerList
    multiPort,        \* this.opts.multiPort
    thisPeers,        \* this.peers: the Peer objects of the list, by reference
    objs,             \* the Peer objects created so far: reference -> data
    db,               \* this.db: the documents of the store
    adds,             \* the add calls made so far, each with the step it is at
    loads,            \* the load calls made so far
    updates,          \* the update and markConnected calls made by users of the list
    micro,            \* the add calls whose .then callback is queued as a microtask
    store             \* the operations the store has queued, oldest first

listVars == <<multiPort, thisPeers, objs, db, adds, loads, updates, micro, store>>

VARIABLES
    \* ---- calls of the functions of class PeerList
    gw,               \* a getWeighted call: its arguments and what it returned
    cleaned           \* an address and the results of cleanAddress applied to it

fnVars == <<gw, cleaned>>

vars == <<iriVars, listVars, fnVars>>

\* ----------------------------------------------------------------- helpers
Range(s) == {s[i] : i \in 1..Len(s)}

RECURSIVE SelectSeqBy(_, _)
\* Array.prototype.filter, for a predicate given as the set of elements kept.
SelectSeqBy(s, keep) ==
    IF s = <<>> THEN <<>>
    ELSE IF Head(s) \in keep THEN <<Head(s)>> \o SelectSeqBy(Tail(s), keep)
         ELSE SelectSeqBy(Tail(s), keep)

\* ------------------------------------------------------- hosts, peers, URIs
\* The literal addresses among the hosts (ip.isV4Format / ip.isV6Format).
IPs == {"1.1.1.1"}

IsIP(h) == h # Null /\ Len(h) = 1 /\ h[1] \in IPs

\* What a DNS A lookup of a hostname answers: "hx" is 1.1.1.1, "hy" does not resolve.
DNS(h) == IF h = <<"hx">> THEN <<"1.1.1.1">> ELSE Null

\* tools/utils getIP: a literal is its own IP, a hostname is resolved, null on failure.
getIP(h) == IF IsIP(h) THEN h ELSE DNS(h)

\* `${port}` in a template string.
PortStr(p) == IF p = DefaultUDPPort THEN "14600" ELSE "14601"

\* The Peer objects handed to the client: data.hostname, data.ip, data.UDPPort.
PX == [hostname |-> <<"hx">>, ip |-> <<"1.1.1.1">>, UDPPort |-> DefaultUDPPort]
PY == [hostname |-> <<"hy">>, ip |-> Null, UDPPort |-> DefaultUDPPort]
PZ == [hostname |-> <<"1.1.1.1">>, ip |-> <<"1.1.1.1">>, UDPPort |-> DefaultUDPPort + 1]
PeerLists == {<<>>, <<PX>>, <<PX, PY>>, <<PY, PZ>>}

\* Peer.getUDPURI: `udp://${hostname}:${UDPPort}`
getUDPURI(p) == [scheme |-> "udp", address |-> p.hostname \o <<PortStr(p.UDPPort)>>]

\* `${n.connectionType}://${n.address}`
NeighborURI(n) == [scheme |-> n.connectionType, address |-> n.address]

\* What the ledger may answer to getNeighbors: it is a process of its own, whose
\* neighbors are configured before the client starts and change under it.
NX == [address |-> <<"hx", "14600">>, connectionType |-> "udp"]
NY == [address |-> <<"hy", "14600">>, connectionType |-> "udp"]
NZ == [address |-> <<"1.1.1.1", "14601">>, connectionType |-> "tcp"]
Ledgers == {<<>>, <<NX>>, <<NZ, NY>>}

\* The outcome of an RPC: an error, or the neighbors for getNeighbors.
Failure == [error |-> TRUE, neighbors |-> <<>>]
Responses == {[error |-> FALSE, neighbors |-> l] : l \in Ledgers} \cup {Failure}

\* addresses.map(getIP), once every lookup has answered.
IPsOf(addresses) == [i \in 1..Len(addresses) |-> getIP(addresses[i])]

\* neighbors.map((n) => n.address.split(':')[0])
HostsOf(neighbors) == [i \in 1..Len(neighbors) |-> <<Head(neighbors[i].address)>>]

\* peers.map((p) => p.getUDPURI())
URIsOf(peers) == [i \in 1..Len(peers) |-> getUDPURI(peers[i])]

\* neighbors.map((n) => `${n.connectionType}://${n.address}`)
NeighborURIsOf(neighbors) == [i \in 1..Len(neighbors) |-> NeighborURI(neighbors[i])]

\* ---------------------------------------------------------------- class IRI
\* A start() call: where its promise stands ("polling": a getNeighbors request is
\* out, "waiting": the retry timer is set, "resolving": the DNS lookups are out,
\* "resolved"), its getNeighbors attempts and how many of them failed.
NewStart ==
    [pc |-> "polling", attempts |-> 1, failures |-> 0, addresses |-> <<>>]

\* No answer to getNeighbors yet.
NoAnswer == [error |-> FALSE, neighbors |-> <<>>]

\* Any other call: its method, its argument, where its promise stands
\* ("resolved", "rejected", or the RPC it waits for), what it resolved with, the
\* RPCs it has issued and what the ledger answered to its getNeighbors.
NewOp(method, peers, pc) ==
    [op |-> method, peers |-> peers, pc |-> pc, result |-> <<>>, rpcs |-> <<>>,
     answer |-> NoAnswer]

\* No call yet.
NoOp == NewOp("none", <<>>, "resolved")

Settled == op.pc \in {"resolved", "rejected"}

Rpc(kind, uris) == [kind |-> kind, uris |-> uris]

\* A mutant of isAvailable that forgets the health flag.
isAvailableWhenStarted == isStarted

isAvailable == isStarted /\ isHealthy

isStaticNeighbor(peer) ==
    \E i \in 1..Len(staticNeighbors) :
        staticNeighbors[i] = peer.ip \/ staticNeighbors[i] = peer.hostname

InitIRI ==
    /\ isStarted = FALSE
    /\ isHealthy = FALSE
    /\ staticNeighbors = <<>>
    /\ ticker = 0
    /\ timers = {}
    /\ starts = <<>>
    /\ op = NoOp
    /\ ticksInFlight = 0
    /\ healthLog = <<>>
    /\ lastHealth = <<>>
    /\ ended = FALSE


\* start(): the first getNodeInfo().
start ==
    /\ Len(starts) < MaxStarts
    /\ starts' = Append(starts, NewStart)
    /\ ended' = FALSE
    /\ UNCHANGED <<listVars, fnVars>>
    /\ UNCHANGED <<isStarted, isHealthy, staticNeighbors, ticker, timers, op,
                   ticksInFlight, healthLog, lastHealth>>

\* The body of the .then after Promise.all(addresses.map(getIP)) in start().
Started(c, addresses) ==
    /\ isStarted' = TRUE
    /\ isHealthy' = TRUE
    /\ staticNeighbors' = IPsOf(addresses) \o addresses
    /\ ticker' = c
    /\ timers' = timers \cup {c}
    /\ starts' = [starts EXCEPT ![c].pc = "resolved", ![c].addresses = addresses]

\* A mutant of StartFailed that resolves the promise instead of retrying.
StartFailedResolves(c) ==
    starts' = [starts EXCEPT ![c].pc = "resolved", ![c].failures = starts[c].failures + 1]

\* What the callback of getNeighbors in getNodeInfo does on an error.
StartFailed(c) ==
    starts' = [starts EXCEPT ![c].pc = "waiting", ![c].failures = starts[c].failures + 1]

\* The callback of getNeighbors in getNodeInfo. Promise.all over literal
\* addresses (or none) settles in the same turn of the event loop; a hostname
\* needs a DNS answer first.
StartResponse(c, r) ==
    /\ c \in 1..Len(starts)
    /\ starts[c].pc = "polling"
    /\ IF ~r.error
       THEN LET addresses == HostsOf(r.neighbors)
            IN  IF \A i \in 1..Len(addresses) : IsIP(addresses[i])
                THEN Started(c, addresses)
                ELSE /\ starts' = [starts EXCEPT ![c].pc = "resolving",
                                                 ![c].addresses = addresses]
                     /\ UNCHANGED <<isStarted, isHealthy, staticNeighbors, ticker, timers>>
       ELSE /\ StartFailed(c)
            /\ UNCHANGED <<isStarted, isHealthy, staticNeighbors, ticker, timers>>
    /\ UNCHANGED <<listVars, fnVars>>
    /\ UNCHANGED <<op, ticksInFlight, healthLog, lastHealth, ended>>

\* setTimeout(getNodeInfo, 5000) fires.
StartRetry(c) ==
    /\ c \in 1..Len(starts)
    /\ starts[c].pc = "waiting"
    /\ starts[c].attempts < MaxAttempts
    /\ starts' = [starts EXCEPT ![c].pc = "polling", ![c].attempts = starts[c].attempts + 1]
    /\ UNCHANGED <<listVars, fnVars>>
    /\ UNCHANGED <<isStarted, isHealthy, staticNeighbors, ticker, timers, op,
                   ticksInFlight, healthLog, lastHealth, ended>>

\* Promise.all(addresses.map(getIP)) settles after the DNS answers.
StartResolved(c) ==
    /\ c \in 1..Len(starts)
    /\ starts[c].pc = "resolving"
    /\ Started(c, starts[c].addresses)
    /\ UNCHANGED <<listVars, fnVars>>
    /\ UNCHANGED <<op, ticksInFlight, healthLog, lastHealth, ended>>

end ==
    /\ isHealthy' = FALSE
    /\ isStarted' = FALSE
    /\ staticNeighbors' = <<>>
    /\ timers' = timers \ {ticker}
    /\ ticker' = 0
    /\ ended' = TRUE
    /\ UNCHANGED <<listVars, fnVars>>
    /\ UNCHANGED <<starts, op, ticksInFlight, healthLog, lastHealth>>

\* A mutant of myPeersOf that filters nothing.
myPeersUnfiltered(peers) == peers

\* peers.filter(...) in removeNeighbors.
myPeersOf(peers) == SelectSeqBy(peers, {p \in Range(peers) : ~isStaticNeighbor(p)})

\* The guard of the early return of removeNeighbors.
NothingToRemove(peers) == Len(peers) = 0

\* What removeNeighbors resolves with.
RemoveResult(peers) == peers

\* removeNeighbors(peers), up to the RPC.
removeNeighbors(peers) ==
    /\ Settled
    /\ IF ~isAvailable
       THEN op' = NewOp("remove", peers, "rejected")
       ELSE IF NothingToRemove(peers)
            THEN op' = NewOp("remove", peers, "resolved")
            ELSE op' = [NewOp("remove", peers, "remove") EXCEPT
                           !.rpcs = <<Rpc("removeNeighbors",
                                          URIsOf(myPeersOf(peers)))>>]
    /\ UNCHANGED <<listVars, fnVars>>
    /\ UNCHANGED <<isStarted, isHealthy, staticNeighbors, ticker, timers, starts,
                   ticksInFlight, healthLog, lastHealth, ended>>

\* The callback of api.removeNeighbors in removeNeighbors.
RemoveResponse(err) ==
    /\ op.op = "remove" /\ op.pc = "remove"
    /\ IF err
       THEN op' = [op EXCEPT !.pc = "rejected"]
       ELSE op' = [op EXCEPT !.pc = "resolved", !.result = RemoveResult(op.peers)]
    /\ UNCHANGED <<listVars, fnVars>>
    /\ UNCHANGED <<isStarted, isHealthy, staticNeighbors, ticker, timers, starts,
                   ticksInFlight, healthLog, lastHealth, ended>>

\* addNeighbors(peers), up to the RPC, for the call o whose promise it settles
\* (updateNeighbors passes the outcome of its inner addNeighbors on).
AddNeighborsOf(o, peers) ==
    IF ~isAvailable
    THEN op' = [o EXCEPT !.pc = "rejected"]
    ELSE op' = [o EXCEPT !.pc = "add",
                         !.rpcs = Append(o.rpcs, Rpc("addNeighbors", URIsOf(peers)))]

addNeighbors(peers) ==
    /\ Settled
    /\ AddNeighborsOf(NewOp("add", peers, "new"), peers)
    /\ UNCHANGED <<listVars, fnVars>>
    /\ UNCHANGED <<isStarted, isHealthy, staticNeighbors, ticker, timers, starts,
                   ticksInFlight, healthLog, lastHealth, ended>>

\* The callback of api.addNeighbors, for addNeighbors and for updateNeighbors.
AddResponse(err) ==
    /\ op.pc = "add"
    /\ IF err
       THEN op' = [op EXCEPT !.pc = "rejected"]
       ELSE op' = [op EXCEPT !.pc = "resolved", !.result = op.peers]
    /\ UNCHANGED <<listVars, fnVars>>
    /\ UNCHANGED <<isStarted, isHealthy, staticNeighbors, ticker, timers, starts,
                   ticksInFlight, healthLog, lastHealth, ended>>

\* The guard of the early return of updateNeighbors: !peers || !peers.length.
NothingToUpdate(peers) == Len(peers) = 0

\* updateNeighbors(peers), up to its getNeighbors RPC.
updateNeighbors(peers) ==
    /\ Settled
    /\ IF ~isAvailable
       THEN op' = NewOp("update", peers, "rejected")
       ELSE IF NothingToUpdate(peers)
            THEN op' = NewOp("update", peers, "resolved")
            ELSE op' = [NewOp("update", peers, "get") EXCEPT
                           !.rpcs = <<Rpc("getNeighbors", <<>>)>>]
    /\ UNCHANGED <<listVars, fnVars>>
    /\ UNCHANGED <<isStarted, isHealthy, staticNeighbors, ticker, timers, starts,
                   ticksInFlight, healthLog, lastHealth, ended>>

\* A mutant of UpdateToRemove that spares the static neighbors.
UpdateToRemoveNonStatic(neighbors) ==
    SelectSeqBy(neighbors,
                {n \in Range(neighbors) : <<Head(n.address)>> \notin Range(staticNeighbors)})

\* The neighbors updateNeighbors asks the ledger to remove: all of them.
UpdateToRemove(neighbors) == neighbors

\* The callback of getNeighbors in updateNeighbors.
UpdateGetResponse(r) ==
    /\ op.op = "update" /\ op.pc = "get"
    /\ IF r.error
       THEN op' = [op EXCEPT !.pc = "rejected", !.answer = r]
       ELSE IF Len(r.neighbors) # 0
            THEN op' = [op EXCEPT !.pc = "remove", !.answer = r,
                           !.rpcs = Append(op.rpcs,
                               Rpc("removeNeighbors",
                                   NeighborURIsOf(UpdateToRemove(r.neighbors))))]
            ELSE AddNeighborsOf([op EXCEPT !.answer = r], op.peers)
    /\ UNCHANGED <<listVars, fnVars>>
    /\ UNCHANGED <<isStarted, isHealthy, staticNeighbors, ticker, timers, starts,
                   ticksInFlight, healthLog, lastHealth, ended>>

\* The callback of api.removeNeighbors in updateNeighbors: addNeighbors, whatever
\* the removal answered.
UpdateRemoveResponse(err) ==
    /\ op.op = "update" /\ op.pc = "remove"
    /\ AddNeighborsOf(op, op.peers)
    /\ UNCHANGED <<listVars, fnVars>>
    /\ UNCHANGED <<isStarted, isHealthy, staticNeighbors, ticker, timers, starts,
                   ticksInFlight, healthLog, lastHealth, ended>>

\* removeAllNeighbors(), up to its getNeighbors RPC.
removeAllNeighbors ==
    /\ Settled
    /\ IF ~isAvailable
       THEN op' = NewOp("removeAll", <<>>, "rejected")
       ELSE op' = [NewOp("removeAll", <<>>, "get") EXCEPT
                      !.rpcs = <<Rpc("getNeighbors", <<>>)>>]
    /\ UNCHANGED <<listVars, fnVars>>
    /\ UNCHANGED <<isStarted, isHealthy, staticNeighbors, ticker, timers, starts,
                   ticksInFlight, healthLog, lastHealth, ended>>

\* neighbors.filter((n) => !this.staticNeighbors.includes(n.address))
toRemoveOf(neighbors) ==
    SelectSeqBy(neighbors, {n \in Range(neighbors) : n.address \notin Range(staticNeighbors)})

\* The callback of getNeighbors in removeAllNeighbors.
RemoveAllGetResponse(r) ==
    /\ op.op = "removeAll" /\ op.pc = "get"
    /\ IF r.error
       THEN op' = [op EXCEPT !.pc = "resolved", !.answer = r]
       ELSE IF Len(r.neighbors) # 0
            THEN op' = [op EXCEPT !.pc = "remove", !.answer = r,
                           !.rpcs = Append(op.rpcs,
                               Rpc("removeNeighbors",
                                   NeighborURIsOf(toRemoveOf(r.neighbors))))]
            ELSE op' = [op EXCEPT !.pc = "resolved", !.answer = r]
    /\ UNCHANGED <<listVars, fnVars>>
    /\ UNCHANGED <<isStarted, isHealthy, staticNeighbors, ticker, timers, starts,
                   ticksInFlight, healthLog, lastHealth, ended>>

\* The callback of api.removeNeighbors in removeAllNeighbors is resolve itself.
RemoveAllRemoveResponse(err) ==
    /\ op.op = "removeAll" /\ op.pc = "remove"
    /\ op' = [op EXCEPT !.pc = "resolved"]
    /\ UNCHANGED <<listVars, fnVars>>
    /\ UNCHANGED <<isStarted, isHealthy, staticNeighbors, ticker, timers, starts,
                   ticksInFlight, healthLog, lastHealth, ended>>

\* An interval timer set by start() fires: _tick, up to its getNeighbors RPC.
Tick ==
    /\ timers # {}
    /\ Len(healthLog) + ticksInFlight < MaxTicks
    /\ ticksInFlight' = ticksInFlight + 1
    /\ UNCHANGED <<listVars, fnVars>>
    /\ UNCHANGED <<isStarted, isHealthy, staticNeighbors, ticker, timers, starts, op,
                   healthLog, lastHealth, ended>>

\* A mutant of TickHealth that never recovers from a failed check.
TickHealthSticky(r) == isHealthy /\ ~r.error

\* isHealthy as the callback of getNeighbors in _tick sets it.
TickHealth(r) == ~r.error

\* The callback of getNeighbors in _tick.
TickResponse(r) ==
    /\ ticksInFlight > 0
    /\ ticksInFlight' = ticksInFlight - 1
    /\ isHealthy' = TickHealth(r)
    /\ healthLog' = Append(healthLog, ~r.error)
    /\ lastHealth' = IF r.error THEN <<FALSE>>
                     ELSE <<TRUE, HostsOf(r.neighbors)>>
    /\ UNCHANGED <<listVars, fnVars>>
    /\ UNCHANGED <<isStarted, staticNeighbors, ticker, timers, starts, op, ended>>

\* ----------------------------------------------------------- class PeerList
\* NaN, which is equal to nothing, itself included.
NaN == 0 - 1

\* parseInt of the port strings the callers pass.
parseInt(str) ==
    CASE str = "16600" -> 16600
      [] str = "16601" -> 16601
      [] str = "15600" -> 15600
      [] str = "14600" -> 14600
      [] OTHER -> NaN

\* a === b and a == b on numbers.
NumEq(a, b) == a # NaN /\ b # NaN /\ a = b

\* The literals of the model. An address is the sequence of the pieces between
\* its colons: <<"1.1.1.1">> is a v4 literal, <<"", "", "ffff", "1.1.1.1">> is
\* ::ffff:1.1.1.1 and <<"fe80", "", "1">> is fe80::1.
PublicV4 == {"1.1.1.1", "8.8.8.8", "172.32.0.1"}
PrivateV4 == {"10.0.0.1", "192.168.0.1", "127.0.0.1", "172.16.0.1", "169.254.0.1"}
\* The groups of the v6 literals of the model, and the first groups of those in
\* a private range.
HexGroups == {"1", "2", "12", "2001", "db8", "ffff", "fe80", "fd00", "fc00"}
PrivateV6Groups == {"fe80", "fd00", "fc00"}

\* ip.isV4Format
isV4Format(a) == Len(a) = 1 /\ a[1] \in PublicV4 \cup PrivateV4
\* ip.isV6Format: groups between colons, the last of which may be a v4 literal.
isV6Format(a) ==
    /\ Len(a) >= 2
    /\ \A i \in 1..Len(a) :
          \/ a[i] \in HexGroups \cup {""}
          \/ i = Len(a) /\ a[i] \in PublicV4 \cup PrivateV4
\* ip.isPrivate: a private v4 literal, with the ::ffff: prefix or without it, a
\* v6 literal in a private range, ::1 or ::.
isPrivate(a) ==
    \/ Len(a) = 1 /\ a[1] \in PrivateV4
    \/ Len(a) = 4 /\ a[1] = "" /\ a[2] = "" /\ a[3] = "ffff" /\ a[4] \in PrivateV4
    \/ Len(a) >= 2 /\ a[1] \in PrivateV6Groups
    \/ a \in {<<"", "", "1">>, <<"", "", "">>}

\* The places where '::ffff:' occurs in an address: the piece before it.
MappedAt(a) == {i \in 1..Len(a) : i + 3 <= Len(a) /\ a[i + 1] = "" /\ a[i + 2] = "ffff"}

\* address.replace('::ffff:', ''): the first occurrence is removed, which joins
\* the pieces on its two sides.
ReplaceMapped(a) ==
    IF MappedAt(a) = {} THEN a
    ELSE LET i == CHOOSE k \in MappedAt(a) : \A m \in MappedAt(a) : k <= m
         IN  SubSeq(a, 1, i - 1) \o <<a[i] \o a[i + 3]>> \o SubSeq(a, i + 4, Len(a))

\* PeerList.cleanAddress with the replacement made before the private range is
\* looked at.
cleanAddressReplaceFirst(address) ==
    IF ~isV4Format(address) /\ ~isV6Format(address) THEN address
    ELSE IF MappedAt(address) # {} THEN ReplaceMapped(address)
    ELSE IF isPrivate(address) THEN <<"localhost">> ELSE address

\* PeerList.cleanAddress
cleanAddress(address) ==
    IF ~isV4Format(address) /\ ~isV6Format(address) THEN address
    ELSE IF isPrivate(address) THEN <<"localhost">>
    ELSE ReplaceMapped(address)

\* What dns.resolve(addr, 'A') may answer: the first record, or null on an error
\* or an empty answer.
DnsAnswers(addr) == IF addr = <<"hx">> THEN {<<"1.1.1.1">>, Null} ELSE {Null}

\* The data of a Peer: the document fields the list reads and writes, id being
\* _id (0 until the store has inserted it).
PeerData(hostname, ip, port, TCPPort, UDPPort, trusted, weight) ==
    [hostname |-> hostname, ip |-> ip, port |-> port, TCPPort |-> TCPPort,
     UDPPort |-> UDPPort, isTrusted |-> trusted, weight |-> weight,
     connected |-> 0, tried |-> 0, id |-> 0]

\* The store a PeerList may be constructed on: empty, or left by an earlier run.
PriorDoc ==
    [PeerData(<<"hx">>, Null, 16600, DefaultTCPPort, DefaultUDPPort, FALSE, 0)
        EXCEPT !.id = 1]
InitialStores == {{}, {PriorDoc}}

\* The _id the store gives the document of add call a.
DocId(a) == a + 1

\* The arguments of the add calls of the model.
AddHosts == {<<"hx">>, <<"1.1.1.1">>}
AddPorts == {"16600", "16601"}
AddWeights == {0, MAX_WEIGHT + 1}
\* The URIs of the defaults, split at '/'.
DefaultLists ==
    {<<>>,
     << <<"hx", "16600", "15600", "14600">> >>,
     << <<"hx", "16601", "15600", "14600">> >>,
     << <<"1.1.1.1", "16600", "15600", "14600">>,
        <<"1.1.1.1", "16600", "15600", "14600">> >>}

InitList ==
    /\ multiPort \in BOOLEAN
    /\ thisPeers = <<>>
    /\ objs = <<>>
    /\ db \in InitialStores
    /\ adds = <<>>
    /\ loads = <<>>
    /\ updates = <<>>
    /\ micro = <<>>
    /\ store = <<>>

\* No call of getWeighted has been made; isMaster is this.opts.isMaster.
NoCall == [called |-> FALSE, isMaster |-> FALSE]

InitFn == gw = NoCall /\ cleaned = <<>>

Init == InitIRI /\ InitList /\ InitFn

\* The client next to a peer list with the default options on a fresh store.
InitClient == Init /\ ~multiPort /\ db = {}

\* this.peers.filter(...) in findWithIP over the list ps of references into os,
\* in the order of the list.
findWithIP(ps, os, address, addr, port, ip) ==
    LET matches(r) ==
            \/ os[r].hostname = addr
            \/ os[r].hostname = address
            \/ ip # Null /\ (os[r].hostname = ip \/ os[r].ip = ip)
        byAddress == SelectSeqBy(ps, {r \in Range(ps) : matches(r)})
    IN  IF multiPort
        THEN SelectSeqBy(byAddress, {r \in Range(byAddress) : NumEq(os[r].port, port)})
        ELSE byAddress

\* Whether findByAddress answers without a DNS lookup.
FindsAtOnce(addr) == isV6Format(addr) \/ isV4Format(addr) \/ multiPort

\* An add call after its parseInt lines, at the step pc; found are the peers
\* findByAddress resolved with, parent is the load call that made the call (0:
\* none), peer is the reference it resolves with and weightFound the weight that
\* peer had when the .then callback found it; ip is what findWithIP was called
\* with.
NewAdd(hostname, port, TCPPort, UDPPort, trusted, weight, parent) ==
    [hostname |-> hostname, port |-> parseInt(port),
     TCPPort |-> parseInt(IF TCPPort = "" THEN "15600" ELSE TCPPort),
     UDPPort |-> parseInt(IF UDPPort = "" THEN "14600" ELSE UDPPort),
     isTrusted |-> trusted, weight |-> weight, parent |-> parent,
     pc |-> "dns", found |-> <<>>, peer |-> 0, weightFound |-> 0,
     insertFailed |-> FALSE,
     ip |-> Null]

\* add(...), up to the first suspension, on the list ps: findByAddress has
\* either resolved with the peers it found (and the .then callback is queued)
\* or waits for the DNS. The result is the calls and the microtask queue.
AddStarted(as, q, ps, os, a) ==
    LET addr == cleanAddress(a.hostname)
    IN  IF FindsAtOnce(addr)
        THEN <<Append(as, [a EXCEPT !.pc = "then", !.ip = addr,
                                    !.found = findWithIP(ps, os, a.hostname, addr, a.port, addr)]),
               Append(q, Len(as) + 1)>>
        ELSE <<Append(as, a), q>>

\* The add calls that load calls still waiting for the store will make.
RECURSIVE Reserved(_)
Reserved(ls) ==
    IF ls = <<>> THEN 0
    ELSE (IF Head(ls).pc = "find" THEN Len(Head(ls).defaults) ELSE 0) + Reserved(Tail(ls))

\* A call of add by a user of the list: TCPPort and UDPPort are left out.
add(hostname, port, weight) ==
    /\ Len(adds) + Reserved(loads) < MaxAdds
    /\ LET next == AddStarted(adds, micro, thisPeers, objs,
                              NewAdd(hostname, port, "", "", FALSE, weight, 0))
       IN  adds' = next[1] /\ micro' = next[2]
    /\ UNCHANGED <<multiPort, thisPeers, objs, db, loads, updates, store>>
    /\ UNCHANGED <<iriVars, fnVars>>

\* { ...peer.data, ...data }
Merge(old, data) == [f \in DOMAIN old |-> IF f \in DOMAIN data THEN data[f] ELSE old[f]]

\* Peer.update(newData, false): the peer takes the merged fields.
PeerUpdate(os, r, data) == [os EXCEPT ![r] = Merge(os[r], data)]

\* update(peer, data) with refreshPeer = true, by the add call a or the user
\* call u (0: none): the peer takes the merged data at once and the store is
\* asked to write them to the document with the _id the peer has.
UpdateOf(r, data, a, u) ==
    LET newData == Merge(objs[r], data)
    IN  /\ objs' = PeerUpdate(objs, r, newData)
        /\ store' = Append(store, [kind |-> "update", id |-> objs[r].id, data |-> newData,
                                   add |-> a, update |-> u, load |-> 0])

\* The ports of an add call differ from those of the peer it found.
PortsDiffer(a, existing) ==
    \/ ~NumEq(a.port, existing.port)
    \/ a.TCPPort \notin {NaN, 0} /\ ~NumEq(a.TCPPort, existing.TCPPort)
    \/ a.UDPPort \notin {NaN, 0} /\ ~NumEq(a.UDPPort, existing.UDPPort)

\* existing.data.weight < weight
WeightIsRaised(a, existing) == existing.weight < a.weight

\* new Peer({...}) in add.
NewPeer(a) ==
    LET addr == cleanAddress(a.hostname)
    IN  PeerData(addr,
                 IF isV4Format(addr) \/ isV6Format(addr) THEN addr ELSE Null,
                 a.port,
                 IF a.TCPPort \in {NaN, 0} THEN DefaultTCPPort ELSE a.TCPPort,
                 IF a.UDPPort \in {NaN, 0} THEN DefaultUDPPort ELSE a.UDPPort,
                 a.isTrusted, a.weight)

\* The .then callback of findByAddress in add, called with the peers found.
AddThenBody(a, found, ip) ==
    LET call == adds[a]
        existing == found[1]
    IN  IF found # <<>>
        THEN IF ~multiPort /\ PortsDiffer(call, objs[existing])
             THEN /\ UpdateOf(existing, [port |-> call.port, TCPPort |-> call.TCPPort,
                                         UDPPort |-> call.UDPPort], a, 0)
                  /\ adds' = [adds EXCEPT ![a].pc = "update", ![a].found = found, ![a].ip = ip,
                                          ![a].peer = existing,
                                          ![a].weightFound = objs[existing].weight]
                  /\ UNCHANGED thisPeers
             ELSE IF WeightIsRaised(call, objs[existing])
             THEN /\ UpdateOf(existing, [weight |-> call.weight], a, 0)
                  /\ adds' = [adds EXCEPT ![a].pc = "update", ![a].found = found, ![a].ip = ip,
                                          ![a].peer = existing,
                                          ![a].weightFound = objs[existing].weight]
                  /\ UNCHANGED thisPeers
             ELSE /\ adds' = [adds EXCEPT ![a].pc = "done", ![a].found = found, ![a].ip = ip,
                                          ![a].peer = existing,
                                          ![a].weightFound = objs[existing].weight]
                  /\ UNCHANGED <<thisPeers, objs, store>>
        ELSE LET peer == Len(objs) + 1
             IN  /\ objs' = Append(objs, NewPeer(call))
                 /\ thisPeers' = Append(thisPeers, peer)
                 /\ store' = Append(store, [kind |-> "insert", id |-> DocId(a),
                                            data |-> NewPeer(call), add |-> a,
                                            update |-> 0, load |-> 0])
                 /\ adds' = [adds EXCEPT ![a].pc = "insert", ![a].found = found, ![a].ip = ip,
                                         ![a].peer = peer, ![a].weightFound = call.weight]

\* The queued .then callback of an add call whose findByAddress resolved at once.
AddThen(a) ==
    /\ micro # <<>> /\ Head(micro) = a
    /\ micro' = Tail(micro)
    /\ AddThenBody(a, adds[a].found, adds[a].ip)
    /\ UNCHANGED <<multiPort, db, loads, updates>>
    /\ UNCHANGED <<iriVars, fnVars>>

\* The callback of dns.resolve in findByAddress, with the first record or null,
\* and the .then callback of add that the resolved promise runs next.
AddDnsAnswer(a, ip) ==
    /\ a \in 1..Len(adds)
    /\ adds[a].pc = "dns"
    /\ micro = <<>>
    /\ ip \in DnsAnswers(cleanAddress(adds[a].hostname))
    /\ AddThenBody(a, findWithIP(thisPeers, objs, adds[a].hostname,
                                 cleanAddress(adds[a].hostname), adds[a].port, ip), ip)
    /\ UNCHANGED <<multiPort, db, loads, updates, micro>>
    /\ UNCHANGED <<iriVars, fnVars>>

\* The callback of this.db.insert in add: on an error the promise is rejected;
\* in both cases the peer stays in the list. Peer.update(doc) merges the
\* document, its _id included, into the peer.
AddInsertDone(err) ==
    /\ micro = <<>>
    /\ store # <<>> /\ Head(store).kind = "insert"
    /\ LET o == Head(store)
           doc == [o.data EXCEPT !.id = o.id]
       IN  IF err
           THEN /\ adds' = [adds EXCEPT ![o.add].pc = "failed", ![o.add].insertFailed = TRUE]
                /\ UNCHANGED <<db, objs>>
           ELSE /\ adds' = [adds EXCEPT ![o.add].pc = "done"]
                /\ db' = db \cup {doc}
                /\ objs' = PeerUpdate(objs, adds[o.add].peer, doc)
    /\ store' = Tail(store)
    /\ UNCHANGED <<multiPort, thisPeers, loads, updates, micro>>
    /\ UNCHANGED <<iriVars, fnVars>>

\* The callback of this.db.update in update: the document with the _id is
\* replaced by newData, if there is one and the write succeeds. The callback
\* takes no argument: the caller's promise resolves whether the write failed
\* or not.
UpdateDone(err) ==
    /\ micro = <<>>
    /\ store # <<>> /\ Head(store).kind = "update"
    /\ LET o == Head(store)
       IN  /\ db' = IF err THEN db
                    ELSE {IF d.id = o.id THEN [o.data EXCEPT !.id = o.id] ELSE d : d \in db}
           /\ adds' = IF o.add = 0 THEN adds ELSE [adds EXCEPT ![o.add].pc = "done"]
           /\ updates' = IF o.update = 0 THEN updates
                         ELSE [updates EXCEPT ![o.update].pc = "done",
                                              ![o.update].writeFailed = err]
    /\ store' = Tail(store)
    /\ UNCHANGED <<multiPort, thisPeers, objs, loads, micro>>
    /\ UNCHANGED <<iriVars, fnVars>>

\* clear(): the list is emptied at once and this.db.remove({}, { multi: true })
\* is queued.
clear ==
    /\ Cardinality({i \in 1..Len(store) : store[i].kind = "remove"}) < MaxClears
    /\ thisPeers' = <<>>
    /\ store' = Append(store, [kind |-> "remove", id |-> 0, data |-> <<>>, add |-> 0,
                               update |-> 0, load |-> 0])
    /\ UNCHANGED <<multiPort, objs, db, adds, loads, updates, micro>>
    /\ UNCHANGED <<iriVars, fnVars>>

\* The callback of this.db.remove in clear: every document is removed.
ClearDone ==
    /\ micro = <<>>
    /\ store # <<>> /\ Head(store).kind = "remove"
    /\ db' = {}
    /\ store' = Tail(store)
    /\ UNCHANGED <<multiPort, thisPeers, objs, adds, loads, updates, micro>>
    /\ UNCHANGED <<iriVars, fnVars>>

\* The data of the update calls of the model.
UpdateWeights == {1, MAX_WEIGHT + 1}

\* A call update(peer, { weight }) by a user of the list, on a peer of all().
update(peer, weight) ==
    /\ Len(updates) < MaxUpdates
    /\ peer \in Range(thisPeers)
    /\ updates' = Append(updates, [kind |-> "update", peer |-> peer, pc |-> "writing",
                                   writeFailed |-> FALSE])
    /\ UpdateOf(peer, [weight |-> weight], 0, Len(updates) + 1)
    /\ UNCHANGED <<multiPort, thisPeers, db, adds, loads, micro>>
    /\ UNCHANGED <<iriVars, fnVars>>

\* Math.min(peer.data.weight * (...), MAX_WEIGHT)
ConnectedWeight(weight, increaseWeight) ==
    LET w == weight * (IF increaseWeight THEN CONNECTION_WEIGHT_MULTIPLIER ELSE 1)
    IN  IF w < MAX_WEIGHT THEN w ELSE MAX_WEIGHT

\* A call markConnected(peer, increaseWeight) on a peer of all().
markConnected(peer, increaseWeight) ==
    /\ Len(updates) < MaxUpdates
    /\ peer \in Range(thisPeers)
    /\ updates' = Append(updates, [kind |-> "markConnected", peer |-> peer, pc |-> "writing",
                                   writeFailed |-> FALSE])
    /\ UpdateOf(peer, [tried |-> 0, connected |-> objs[peer].connected + 1,
                       weight |-> ConnectedWeight(objs[peer].weight, increaseWeight)],
                0, Len(updates) + 1)
    /\ UNCHANGED <<multiPort, thisPeers, db, adds, loads, micro>>
    /\ UNCHANGED <<iriVars, fnVars>>

\* load(defaultPeerURLs): this.db.find is queued. again is the earlier load call
\* this one repeats (0: none); result is what the promise resolves with and
\* stored the documents of the store at that time.
LoadCalled(defaults, again) ==
    /\ loads' = Append(loads, [defaults |-> defaults, pc |-> "find", again |-> again,
                               result |-> <<>>, stored |-> {}])
    /\ store' = Append(store, [kind |-> "find", id |-> 0, data |-> <<>>, add |-> 0,
                               update |-> 0, load |-> Len(loads) + 1])

\* A call load(defaultPeerURLs).
load(defaults) ==
    /\ Len(loads) < MaxLoads
    /\ Len(adds) + Reserved(loads) + Len(defaults) <= MaxAdds
    /\ LoadCalled(defaults, 0)
    /\ UNCHANGED <<multiPort, thisPeers, objs, db, adds, updates, micro>>
    /\ UNCHANGED <<iriVars, fnVars>>

\* A second call of load with the defaults of the load call l, made after that
\* call has resolved and while nothing else is going on.
loadAgain(l) ==
    /\ l \in 1..Len(loads) /\ l = Len(loads)
    /\ loads[l].pc = "resolved" /\ loads[l].again = 0
    /\ Len(loads) < MaxLoads + MaxReloads
    /\ store = <<>> /\ micro = <<>>
    /\ \A a \in 1..Len(adds) : adds[a].pc \in {"done", "failed"}
    /\ LoadCalled(loads[l].defaults, l)
    /\ UNCHANGED <<multiPort, thisPeers, objs, db, adds, updates, micro>>
    /\ UNCHANGED <<iriVars, fnVars>>

\* The orders in which the store may hand out its documents.
DocOrders(docs) ==
    {s \in [1..Cardinality(docs) -> docs] : \A i, j \in DOMAIN s : i # j => s[i] # s[j]}

\* loadDefaults: add is called for every default, one after the other, on the
\* list ps before any of the calls goes on.
RECURSIVE DefaultsAdded(_, _, _, _, _, _)
DefaultsAdded(as, q, ps, os, defaults, l) ==
    IF defaults = <<>> THEN <<as, q>>
    ELSE LET tokens == Head(defaults)
             next == AddStarted(as, q, ps, os,
                                NewAdd(<<tokens[1]>>, tokens[2], tokens[3], tokens[4],
                                       TRUE, 1, l))
         IN  DefaultsAdded(next[1], next[2], ps, os, Tail(defaults), l)

\* The callback of this.db.find in load: the list is replaced by new Peer
\* objects, one for each document, and loadDefaults is called.
LoadFindDone(docs) ==
    /\ micro = <<>>
    /\ store # <<>> /\ Head(store).kind = "find"
    /\ docs \in DocOrders(db)
    /\ LET l == Head(store).load
           os == objs \o docs
           ps == [i \in 1..Len(docs) |-> Len(objs) + i]
           next == DefaultsAdded(adds, micro, ps, os, loads[l].defaults, l)
       IN  /\ objs' = os
           /\ thisPeers' = ps
           /\ adds' = next[1]
           /\ micro' = next[2]
           /\ loads' = [loads EXCEPT ![l].pc = "defaults"]
    /\ store' = Tail(store)
    /\ UNCHANGED <<multiPort, db, updates>>
    /\ UNCHANGED <<iriVars, fnVars>>

\* all()
all == [i \in 1..Len(thisPeers) |-> objs[thisPeers[i]]]

\* The .then callback of loadDefaults in load: every add call of the load has
\* resolved.
LoadResolved(l) ==
    /\ l \in 1..Len(loads)
    /\ loads[l].pc = "defaults"
    /\ micro = <<>>
    /\ \A a \in 1..Len(adds) : adds[a].parent = l => adds[a].pc = "done"
    /\ loads' = [loads EXCEPT ![l].pc = "resolved", ![l].result = all, ![l].stored = db]
    /\ UNCHANGED <<multiPort, thisPeers, objs, db, adds, updates, micro, store>>
    /\ UNCHANGED <<iriVars, fnVars>>

\* ---------------------------------------------------------- specifications
\* The start-up and the health ticker.
NextStart ==
    \/ start
    \/ \E c \in 1..MaxStarts, r \in Responses : StartResponse(c, r)
    \/ \E c \in 1..MaxStarts : StartRetry(c)
    \/ \E c \in 1..MaxStarts : StartResolved(c)
    \/ end
    \/ Tick
    \/ \E r \in Responses : TickResponse(r)

SpecStart == InitClient /\ [][NextStart]_vars

\* The retry timer fires and the DNS lookups answer.
FairSpecStart ==
    /\ SpecStart
    /\ \A c \in 1..MaxStarts : WF_vars(StartRetry(c)) /\ WF_vars(StartResolved(c))

\* The managed calls on a client that starts, is ended and has its health
\* checked; the start-up's retries are those of SpecStart.
NextOps ==
    \/ start
    \/ \E c \in 1..MaxStarts, r \in Responses : StartResponse(c, r)
    \/ \E c \in 1..MaxStarts : StartResolved(c)
    \/ end
    \/ \E peers \in PeerLists : removeNeighbors(peers)
    \/ \E err \in BOOLEAN : RemoveResponse(err)
    \/ \E peers \in PeerLists : addNeighbors(peers)
    \/ \E err \in BOOLEAN : AddResponse(err)
    \/ \E peers \in PeerLists : updateNeighbors(peers)
    \/ \E r \in Responses : UpdateGetResponse(r)
    \/ \E err \in BOOLEAN : UpdateRemoveResponse(err)
    \/ removeAllNeighbors
    \/ \E r \in Responses : RemoveAllGetResponse(r)
    \/ \E err \in BOOLEAN : RemoveAllRemoveResponse(err)
    \/ Tick
    \/ \E r \in Responses : TickResponse(r)

SpecOps == InitClient /\ [][NextOps]_vars

\* The peer list.
NextPeerList ==
    \/ \E h \in AddHosts, p \in AddPorts, w \in AddWeights : add(h, p, w)
    \/ \E a \in 1..MaxAdds : AddThen(a)
    \/ \E a \in 1..MaxAdds, ip \in {<<"1.1.1.1">>, Null} : AddDnsAnswer(a, ip)
    \/ \E err \in BOOLEAN : AddInsertDone(err)
    \/ \E err \in BOOLEAN : UpdateDone(err)
    \/ \E r \in 1..Len(objs), w \in UpdateWeights : update(r, w)
    \/ \E r \in 1..Len(objs), inc \in BOOLEAN : markConnected(r, inc)
    \/ \E ds \in DefaultLists : load(ds)
    \/ \E docs \in DocOrders(db) : LoadFindDone(docs)
    \/ \E l \in 1..MaxLoads : LoadResolved(l)

SpecPeerList == Init /\ [][NextPeerList]_vars

\* The peer list of a node with the default options and an empty store, under
\* the calls that write to the store: load, add, update and clear.
NextStore ==
    \/ \E h \in AddHosts : add(h, "16600", 0)
    \/ \E a \in 1..MaxAdds : AddThen(a)
    \/ \E a \in 1..MaxAdds, ip \in {<<"1.1.1.1">>, Null} : AddDnsAnswer(a, ip)
    \/ \E err \in BOOLEAN : AddInsertDone(err)
    \/ \E err \in BOOLEAN : UpdateDone(err)
    \/ \E r \in 1..Len(objs) : update(r, 1)
    \/ \E ds \in DefaultLists : load(ds)
    \/ \E docs \in DocOrders(db) : LoadFindDone(docs)
    \/ \E l \in 1..MaxLoads : LoadResolved(l)
    \/ clear
    \/ ClearDone

SpecStore == InitClient /\ [][NextStore]_vars

\* ------------------------------------------------------------- getWeighted
\* The length of the peer lists getWeighted is called on and given.
MaxPool == 2
\* The amounts getWeighted is called with.
MaxAmount == 3

\* A peer with a history: age is getSecondsPassed(dateCreated) and
\* connectedAfter the seconds from dateCreated to dateLastConnected (0 when the
\* peer never connected).
AgedPeer(hostname, id, trusted, weight, age, connectedAfter) ==
    [PeerData(<<hostname>>, Null, 16600, DefaultTCPPort, DefaultUDPPort, trusted, weight)
        EXCEPT !.id = id] @@ [age |-> age, connectedAfter |-> connectedAfter]

\* The Peer objects the lists of the getWeighted calls are made of.
PoolPeers ==
    << AgedPeer("ha", 1, TRUE, 1, 10, 5),
       AgedPeer("hb", 2, FALSE, 2, 10, 0),
       AgedPeer("hc", 3, FALSE, 0, 5, 20),
       AgedPeer("hd", 4, FALSE, 1, 10, 5) >>

\* The lists of at most n different peers.
RECURSIVE PoolLists(_)
PoolLists(n) ==
    IF n = 0 THEN {<<>>}
    ELSE PoolLists(n - 1) \cup
         {Append(l, r) : l \in {m \in PoolLists(n - 1) : Len(m) = n - 1},
                         r \in 1..Len(PoolPeers)}

\* A list in which no peer occurs twice.
NoDuplicates(l) == \A i, j \in 1..Len(l) : l[i] = l[j] => i = j

\* The sourcePeers argument: left out, or a list of peers.
NoSource == [given |-> FALSE, list |-> <<>>]
Sources == {NoSource} \cup
           {[given |-> TRUE, list |-> l] : l \in {m \in PoolLists(MaxPool) : NoDuplicates(m)}}

InitWeighted ==
    /\ InitIRI
    /\ multiPort = FALSE
    /\ thisPeers \in {m \in PoolLists(MaxPool) : NoDuplicates(m)}
    /\ objs = PoolPeers
    /\ db = {[f \in DOMAIN PriorDoc |-> PoolPeers[r][f]] : r \in 1..Len(PoolPeers)}
    /\ adds = <<>> /\ loads = <<>> /\ updates = <<>> /\ micro = <<>> /\ store = <<>>
    /\ gw \in {[NoCall EXCEPT !.isMaster = m] : m \in BOOLEAN}
    /\ cleaned = <<>>

\* Math.max(a, b)
Max(a, b) == IF a >= b THEN a ELSE b
\* Math.max(...list) of a list that is not empty.
MaxOf(list) == CHOOSE m \in Range(list) : \A w \in Range(list) : w <= m

\* getPeerWeight(peer)
getPeerWeight(isMaster, peer) ==
    IF isMaster THEN Max(peer.connectedAfter, 1)
    ELSE Max(peer.age * peer.weight, 1)

\* Array.prototype.indexOf, counted from 0: -1 when the element is not there.
IndexOf(list, e) ==
    IF e \in Range(list)
    THEN (CHOOSE i \in 1..Len(list) : list[i] = e /\ \A j \in 1..(i - 1) : list[j] # e) - 1
    ELSE 0 - 1

\* Where list.splice(index, 1) starts, counted from 1: a negative index counts
\* from the end of the list.
SpliceStart(list, index) ==
    IF index < 0 THEN Max(Len(list) + index, 0) + 1 ELSE index + 1

\* The list after list.splice(index, 1), taken as its own result.
SpliceKeepsAll(list, index) == list

\* The list after list.splice(index, 1).
SpliceRest(list, index) ==
    LET k == SpliceStart(list, index)
    IN  SubSeq(list, 1, k - 1) \o SubSeq(list, k + 1, Len(list))

\* What list.splice(index, 1) returns: the elements removed.
SpliceRemoved(list, index) ==
    LET k == SpliceStart(list, index)
    IN  IF k <= Len(list) THEN <<list[k]>> ELSE <<>>

\* A ratio weight / weightsMax, as the pair of its two numbers; 1 is <<1, 1>>.
Ratio(weight, weightsMax) == <<weight, weightsMax>>
One == <<1, 1>>

\* The loop of getWeighted from its round x on: every way it can end, as the
\* choices made and the peers left, weighted(peers, weights) returning any one
\* of the peers.
RECURSIVE ChoiceLoop(_, _, _, _, _, _)
ChoiceLoop(peers, allWeights, weightsMax, amount, x, choices) ==
    IF ~(x < amount) THEN {[choices |-> choices, peers |-> peers]}
    ELSE UNION {
        LET peer == peers[k]
            peers1 == SpliceRest(peers, IndexOf(peers, peer))
            weightsArray == SpliceRemoved(allWeights, IndexOf(peers1, peer))
            allWeights1 == SpliceRest(allWeights, IndexOf(peers1, peer))
            choices1 == Append(choices, <<peer, Ratio(weightsArray[1], weightsMax)>>)
        IN  IF Len(peers1) < 1
            THEN {[choices |-> choices1, peers |-> peers1]}
            ELSE ChoiceLoop(peers1, allWeights1, weightsMax, amount, x + 1, choices1)
        : k \in 1..Len(peers)}

\* choices.filter(c => c && c[0]).map((c) => [c[0], c[0].isTrusted() ? 1 : c[1]])
ResultsOf(os, choices) ==
    [i \in 1..Len(choices) |->
        <<choices[i][1], IF os[choices[i][1]].isTrusted THEN One ELSE choices[i][2]>>]

\* What getWeighted(amount, sourcePeers) can return, with the list it leaves in
\* sourcePeers.
GetWeightedOutcomes(isMaster, ps, os, amount, source) ==
    LET amount1 == IF amount = 0 THEN Len(ps) ELSE amount
        peers == IF source.given THEN source.list ELSE ps
        allWeights == [i \in 1..Len(peers) |-> getPeerWeight(isMaster, os[peers[i]])]
    IN  IF Len(peers) = 0 THEN {[results |-> <<>>, peers |-> peers]}
        ELSE {[results |-> ResultsOf(os, out.choices), peers |-> out.peers] :
                out \in ChoiceLoop(peers, allWeights, MaxOf(allWeights), amount1, 0, <<>>)}

\* A call getWeighted(amount, sourcePeers).
getWeighted(amount, source) ==
    /\ ~gw.called
    /\ \E out \in GetWeightedOutcomes(gw.isMaster, thisPeers, objs, amount, source) :
          gw' = [called |-> TRUE, isMaster |-> gw.isMaster, amount |-> amount,
                 source |-> source, results |-> out.results,
                 sourceAfter |-> IF source.given THEN out.peers ELSE <<>>]
    /\ UNCHANGED <<cleaned, iriVars, listVars>>

NextWeighted == \E amount \in 0..MaxAmount, source \in Sources : getWeighted(amount, source)

SpecWeighted == InitWeighted /\ [][NextWeighted]_vars

\* ------------------------------------------------------------ cleanAddress
\* The number of times cleanAddress is applied to its own result.
MaxCleans == 2

\* The addresses cleanAddress is applied to: hostnames, public and private v4
\* literals, the same with the ::ffff: prefix, and public and private v6
\* literals.
Hostnames == {<<"hx">>, <<"localhost">>, <<"node-a.example">>, <<"example.org">>,
              <<"nelson">>, <<"n1.iota">>}
V4Literals == {<<v>> : v \in PublicV4 \cup PrivateV4}
MappedV4Literals == {<<"", "", "ffff", v>> : v \in PublicV4 \cup PrivateV4}
PublicV6Literals == {<<"2001", "db8", "", "1">>, <<"2001", "db8", "", "2">>,
                     <<"1", "", "ffff", "2">>, <<"2001", "db8", "", "ffff", "1">>,
                     <<"2001", "", "1.1.1.1">>, <<"", "", "2">>}
PrivateV6Literals == {<<"fe80", "", "1">>, <<"fd00", "", "1">>, <<"fc00", "", "2">>,
                      <<"fe80", "", "ffff", "1">>, <<"", "", "1">>, <<"", "", "">>}
CleanInputs ==
    Hostnames \cup V4Literals \cup MappedV4Literals \cup PublicV6Literals
        \cup PrivateV6Literals

InitClean ==
    /\ InitIRI /\ InitList /\ ~multiPort /\ db = {}
    /\ gw = NoCall
    /\ cleaned \in {<<x>> : x \in CleanInputs}

\* PeerList.cleanAddress(address), applied to the last result.
Clean ==
    /\ Len(cleaned) <= MaxCleans
    /\ cleaned' = Append(cleaned, cleanAddress(cleaned[Len(cleaned)]))
    /\ UNCHANGED <<gw, iriVars, listVars>>

SpecClean == InitClean /\ [][Clean]_vars

\* Port arguments that parseInt cannot parse.
BadPorts == {"abc", ""}

\* The peer list under add calls whose port cannot be parsed.
NextBadPort ==
    \/ \E h \in AddHosts, p \in BadPorts, w \in AddWeights : add(h, p, w)
    \/ \E a \in 1..MaxAdds : AddThen(a)
    \/ \E a \in 1..MaxAdds, ip \in {<<"1.1.1.1">>, Null} : AddDnsAnswer(a, ip)
    \/ \E err \in BOOLEAN : AddInsertDone(err)
    \/ \E err \in BOOLEAN : UpdateDone(err)

SpecBadPort == Init /\ [][NextBadPort]_vars

\* The peer list when load is the only call made on it, once and again.
NextLoad ==
    \/ \E ds \in DefaultLists : load(ds)
    \/ \E l \in 1..MaxLoads : loadAgain(l)
    \/ \E docs \in DocOrders(db) : LoadFindDone(docs)
    \/ \E a \in 1..(2 * MaxAdds) : AddThen(a)
    \/ \E a \in 1..(2 * MaxAdds), ip \in {<<"1.1.1.1">>, Null} : AddDnsAnswer(a, ip)
    \/ \E err \in BOOLEAN : AddInsertDone(err)
    \/ \E err \in BOOLEAN : UpdateDone(err)
    \/ \E l \in 1..(MaxLoads + MaxReloads) : LoadResolved(l)

SpecLoad == Init /\ [][NextLoad]_vars

\* ------------------------------------------------------ claims, class IRI
\* The host of a URI's address, as start() records it: address.split(':')[0].
HostOfURI(u) == <<Head(u.address)>>

\* The removeNeighbors RPCs among a call's RPCs.
RemovalsOf(o) == {i \in 1..Len(o.rpcs) : o.rpcs[i].kind = "removeNeighbors"}

\* C1: the removeNeighbors RPC that removeAllNeighbors issues names no neighbor
\* whose host start() recorded as static.
C1_RemoveAllSparesStatic ==
    [][(op.op = "removeAll" /\ op.pc = "get" /\ op'.pc = "remove")
        => \A i \in RemovalsOf(op') : \A j \in 1..Len(op'.rpcs[i].uris) :
              HostOfURI(op'.rpcs[i].uris[j]) \notin Range(staticNeighbors)]_vars

\* A peer whose ip or hostname is in the static set.
InStaticSet(p) == p.ip \in Range(staticNeighbors) \/ p.hostname \in Range(staticNeighbors)

\* C2: the URIs removeNeighbors(peers) sends are the UDP URIs of the peers whose
\* ip and hostname are not in the static set, in the order of peers, and none is
\* the URI of a peer whose ip or hostname is in it.
C2_RemoveFiltersStatic ==
    [][(Settled /\ op'.op = "remove" /\ op'.pc = "remove")
        => LET uris == op'.rpcs[1].uris
               kept == SelectSeqBy(op'.peers, {p \in Range(op'.peers) : ~InStaticSet(p)})
           IN  /\ Len(op'.rpcs) = 1
               /\ uris = [i \in 1..Len(kept) |-> getUDPURI(kept[i])]
               /\ \A p \in Range(op'.peers) :
                     InStaticSet(p) => getUDPURI(p) \notin Range(uris)]_vars

\* A removeNeighbors call on an available client has skipped a static peer and
\* sent the URI of another.
C2_Witness ==
    /\ op.op = "remove" /\ op.pc = "remove"
    /\ isStarted /\ isHealthy
    /\ \E p \in Range(op.peers) : InStaticSet(p)
    /\ Len(op.rpcs[1].uris) = 1
    /\ Len(op.peers) = 2

\* C3: a call of addNeighbors, removeNeighbors, updateNeighbors or
\* removeAllNeighbors on a client that is not started or not healthy rejects,
\* issues no RPC and changes no state of the client.
C3_UnavailableRejects ==
    [][(Settled /\ op' # op /\ ~(isStarted /\ isHealthy))
        => /\ op'.pc = "rejected"
           /\ op'.rpcs = <<>>
           /\ UNCHANGED <<listVars, fnVars>>
    /\ UNCHANGED <<isStarted, isHealthy, staticNeighbors, ticker, timers>>]_vars

\* A call was rejected without an RPC on a started client that is not healthy.
C3_Witness ==
    /\ op.op = "update" /\ op.pc = "rejected" /\ op.rpcs = <<>>
    /\ op.peers # <<>>
    /\ isStarted /\ ~isHealthy

\* C7, as claimed: updateNeighbors(peers) that resolves has fetched the ledger's
\* neighbors and asked the ledger to remove them before it added peers, for
\* every list peers, the empty one included.
C7_UpdateAlwaysRemoves ==
    (op.op = "update" /\ op.pc = "resolved")
        => /\ Len(op.rpcs) = 3
           /\ op.rpcs[1].kind = "getNeighbors"
           /\ op.rpcs[2].kind = "removeNeighbors"
           /\ op.rpcs[3].kind = "addNeighbors"

\* C7, amended: updateNeighbors(peers) with peers empty resolves without any RPC;
\* with peers not empty it fetches the ledger's neighbors, rejects without a
\* further RPC if that fails, else asks the ledger to remove every neighbor it
\* reported (when it reported any), static ones included, and issues addNeighbors
\* for peers only after that removal has returned.
C7_UpdateRemovesAllThenAdds ==
    op.op = "update" =>
        LET reported == [i \in 1..Len(op.answer.neighbors) |->
                        [scheme |-> op.answer.neighbors[i].connectionType,
                         address |-> op.answer.neighbors[i].address]]
            get == Rpc("getNeighbors", <<>>)
            remove == Rpc("removeNeighbors", reported)
            added == Rpc("addNeighbors", [i \in 1..Len(op.peers) |-> getUDPURI(op.peers[i])])
            removed == IF reported = <<>> THEN <<get>> ELSE <<get, remove>>
        IN  /\ op.peers = <<>> => op.rpcs = <<>> /\ op.pc \in {"resolved", "rejected"}
            /\ op.peers # <<>> =>
                /\ op.pc = "get" => op.rpcs = <<get>>
                /\ op.pc = "remove" => op.rpcs = <<get, remove>> /\ reported # <<>>
                /\ op.pc \in {"add", "resolved"} => op.rpcs = removed \o <<added>>
                /\ op.pc = "rejected" =>
                      /\ op.rpcs \in {<<>>, removed, removed \o <<added>>}
                      /\ op.answer.error => op.rpcs = <<get>>

\* An updateNeighbors call has resolved after it asked the ledger to remove a
\* static neighbor.
C7_Witness ==
    /\ op.op = "update" /\ op.pc = "resolved" /\ Len(op.rpcs) = 3
    /\ \E j \in 1..Len(op.rpcs[2].uris) :
           HostOfURI(op.rpcs[2].uris[j]) \in Range(staticNeighbors)

\* C8: removeNeighbors(peers) resolves with the peers it asked the ledger to
\* remove, and issues no RPC when there is none to remove.
C8_ResolvesWithRemoved ==
    (op.op = "remove" /\ op.rpcs # <<>>)
        => /\ op.rpcs[1].uris # <<>>
           /\ op.pc = "resolved"
                 => [i \in 1..Len(op.result) |-> getUDPURI(op.result[i])] = op.rpcs[1].uris

\* C4: start() has one getNeighbors attempt out at a time and one more attempt
\* than failures, except while it waits for its retry timer; the client is
\* neither started nor healthy while no start() has had a successful answer; a
\* start() promise resolves only on a successful attempt, with isStarted and
\* isHealthy set; and a start() whose getNeighbors has succeeded resolves.
C4_StartPollsUntilSuccess ==
    /\ [](\A c \in 1..Len(starts) :
            /\ starts[c].attempts
                 = starts[c].failures + (IF starts[c].pc = "waiting" THEN 0 ELSE 1)
            /\ starts[c].pc \in {"polling", "waiting", "resolving", "resolved"})
    /\ []((\A c \in 1..Len(starts) : starts[c].pc \in {"polling", "waiting"})
            => ~isStarted /\ ~isHealthy)
    /\ [][\A c \in 1..Len(starts) :
            (starts[c].pc # "resolved" /\ starts'[c].pc = "resolved")
                => /\ isStarted' /\ isHealthy'
                   /\ starts'[c].failures = starts[c].failures
                   /\ starts[c].pc \in {"polling", "resolving"}]_vars
    /\ \A c \in 1..MaxStarts :
            (c <= Len(starts) /\ starts[c].pc = "resolving")
                ~> (c <= Len(starts) /\ starts[c].pc = "resolved")

\* A start() has resolved on its third attempt, after two failures.
C4_Witness ==
    \E c \in 1..Len(starts) :
        /\ starts[c].pc = "resolved"
        /\ starts[c].attempts = 3 /\ starts[c].failures = 2
        /\ isStarted /\ isHealthy

\* C5: the answer to a health check sets isHealthy to whether the check
\* succeeded and calls the health callback once, with that flag alone after an
\* error and with that flag and the neighbors' hosts after a success; it leaves
\* the interval timers set.
C5_TickSetsHealth ==
    [][(ticksInFlight' = ticksInFlight - 1)
        => /\ Len(healthLog') = Len(healthLog) + 1
           /\ SubSeq(healthLog', 1, Len(healthLog)) = healthLog
           /\ healthLog'[Len(healthLog')] = isHealthy'
           /\ lastHealth'[1] = isHealthy'
           /\ Len(lastHealth') = (IF isHealthy' THEN 2 ELSE 1)
           /\ isHealthy' => \A i \in 1..Len(lastHealth'[2]) : Len(lastHealth'[2][i]) = 1
           /\ timers' = timers /\ ticker' = ticker]_vars

\* A health check has succeeded after one that failed, and the client is healthy.
C5_Witness ==
    /\ healthLog = <<FALSE, TRUE>>
    /\ isHealthy
    /\ Len(lastHealth) = 2 /\ lastHealth[2] # <<>>

\* C6: once end() has been called, and until start() is called again, the
\* client is neither started nor healthy and no health check is out.
C6_EndStopsClient ==
    ended => ~isStarted /\ ~isHealthy


\* ------------------------------------------------- claims, class PeerList
\* C9: in every reachable state every peer of the list, and every document of
\* the store, has a weight between 0 and MAX_WEIGHT, whatever weights were
\* passed to add, update and markConnected.
C9_WeightInRange ==
    /\ \A i \in 1..Len(thisPeers) :
          0 <= objs[thisPeers[i]].weight /\ objs[thisPeers[i]].weight <= MAX_WEIGHT
    /\ \A d \in db : 0 <= d.weight /\ d.weight <= MAX_WEIGHT

\* C10: in every reachable state no two peers of the list have the same
\* hostname when multiPort is false, and no two have the same hostname and
\* port when multiPort is true.
C10_IdentityUnique ==
    \A i, j \in 1..Len(thisPeers) :
        i # j /\ objs[thisPeers[i]].hostname = objs[thisPeers[j]].hostname
            => multiPort /\ ~NumEq(objs[thisPeers[i]].port, objs[thisPeers[j]].port)

\* The add call a returns in this step: its promise resolves.
AddReturns(a) ==
    /\ a \in 1..Len(adds')
    /\ adds'[a].pc = "done"
    /\ a \in 1..Len(adds) => adds[a].pc # "done"

\* C11: when an add call that found an existing peer returns, the peer's weight
\* is the supplied weight if that was greater than the weight the peer had when
\* it was found, and the weight it had otherwise, whatever ports were supplied
\* and whatever multiPort is.
C11_AddRaisesWeight ==
    [][\A a \in 1..MaxAdds :
          AddReturns(a) /\ adds'[a].found # <<>>
            => objs'[adds'[a].peer].weight =
                  (IF adds'[a].weight > adds'[a].weightFound
                   THEN adds'[a].weight ELSE adds'[a].weightFound)]_vars

\* What findByAddress answers for the hostname and port of the add call a on
\* the list ps, the DNS answering as it did for the call.
FoundAgain(a, ps, os) ==
    findWithIP(ps, os, a.hostname, cleanAddress(a.hostname), a.port, a.ip)

\* C12: when an add call returns, findByAddress with its hostname and port
\* yields a peer that has the supplied port, TCPPort and UDPPort when multiPort
\* is false or the peer is new, and a peer with the port it was stored with
\* when multiPort is true and the peer existed before.
C12_AddThenFind ==
    [][\A a \in 1..MaxAdds :
          AddReturns(a)
            => \E r \in Range(FoundAgain(adds'[a], thisPeers', objs')) :
                  /\ NumEq(objs'[r].port, adds'[a].port)
                  /\ ~multiPort \/ adds'[a].found = <<>>
                        => /\ objs'[r].TCPPort = adds'[a].TCPPort
                           /\ objs'[r].UDPPort = adds'[a].UDPPort]_vars

\* The load call l resolves in this step.
LoadReturns(l) ==
    /\ l \in 1..Len(loads')
    /\ loads'[l].pc = "resolved"
    /\ l \in 1..Len(loads) => loads[l].pc # "resolved"

\* C13: when a load call resolves, the list holds, for every default it was
\* given, a peer of that hostname that is trusted and has a weight of at least
\* 1; and if the store was empty, there was one default and nothing else was
\* added, the list holds exactly one peer.
C13_LoadUpsertsDefaults ==
    [][\A l \in 1..MaxLoads :
          LoadReturns(l)
            => /\ \A i \in 1..Len(loads'[l].defaults) :
                    \E r \in Range(thisPeers') :
                        /\ objs'[r].hostname = cleanAddress(<<loads'[l].defaults[i][1]>>)
                        /\ objs'[r].isTrusted
                        /\ objs'[r].weight >= 1
               /\ (Len(loads'[l].defaults) = 1 /\ Len(adds') = 1
                      /\ PriorDoc \notin db' /\ Len(updates') = 0)
                    => Len(thisPeers') = 1]_vars

\* The peers of a list, without their order.
PeerSet(list) == {list[i] : i \in 1..Len(list)}

\* C14: when a load call that repeats an earlier one resolves, the list has as
\* many peers as when the earlier call resolved, with the same field values, and
\* the store holds the same documents.
C14_LoadIdempotent ==
    [][\A l \in 1..(MaxLoads + MaxReloads) :
          LoadReturns(l) /\ loads'[l].again # 0
            => /\ Len(loads'[l].result) = Len(loads'[loads'[l].again].result)
               /\ PeerSet(loads'[l].result) = PeerSet(loads'[loads'[l].again].result)
               /\ loads'[l].stored = loads'[loads'[l].again].stored]_vars

\* No call on the peer list is in flight: every promise has settled and the
\* store has no operation queued.
Quiescent ==
    /\ store = <<>> /\ micro = <<>>
    /\ \A a \in 1..Len(adds) : adds[a].pc \in {"done", "failed"}
    /\ \A u \in 1..Len(updates) : updates[u].pc = "done"
    /\ \A l \in 1..Len(loads) : loads[l].pc = "resolved"

\* C15: whenever no call on the peer list is in flight, the documents of the
\* store are the data of the peers of the list, one document for each peer.
C15_StoreConsistent ==
    Quiescent => /\ db = PeerSet(all)
                 /\ Cardinality(db) = Len(thisPeers)

\* C16: when the db.insert of an add call reports an error, the add call fails
\* and the peer it made is not in the list; when the db.update of an update
\* call reports an error, the update call fails.
C16_WriteFailureFails ==
    [][/\ \A a \in 1..Len(adds) :
             adds'[a].insertFailed /\ ~adds[a].insertFailed
                => /\ adds'[a].pc = "failed"
                   /\ adds'[a].peer \notin Range(thisPeers')
       /\ \A u \in 1..Len(updates) :
             updates'[u].writeFailed /\ ~updates[u].writeFailed
                => updates'[u].pc = "failed"]_vars

\* C17: as long as every add call made had a port that cannot be parsed as an
\* integer, no step changes the peers of the list or the documents of the store.
C17_BadPortNoMutation ==
    [][(\A a \in 1..Len(adds') : adds'[a].port = NaN) => all' = all /\ db' = db]_vars

PoolOf(call) == IF call.source.given THEN Range(call.source.list) ELSE Range(thisPeers)

\* C18: a call getWeighted(n, source) with n >= 1 returns min(n, |pool|) pairs,
\* so at most n, whose peers are different peers of the pool, and in which
\* every trusted peer has the ratio 1.
C18_WeightedSample ==
    gw.called /\ gw.amount >= 1
        => LET res == gw.results
               pool == PoolOf(gw)
           IN  /\ Len(res) <= gw.amount
               /\ \A i, j \in 1..Len(res) : res[i][1] = res[j][1] => i = j
               /\ \A i \in 1..Len(res) : res[i][1] \in pool
               /\ Len(res) = (IF gw.amount <= Cardinality(pool) THEN gw.amount
                              ELSE Cardinality(pool))
               /\ \A i \in 1..Len(res) :
                     objs[res[i][1]].isTrusted => res[i][2][1] = res[i][2][2]

\* getWeighted(1, source) has picked the trusted peer from a source of two
\* peers, the other of which has the greater weight.
C18_Witness ==
    /\ gw.called /\ gw.amount = 1 /\ gw.source.given
    /\ Cardinality(PoolOf(gw)) = 2
    /\ Len(gw.results) = 1 /\ objs[gw.results[1][1]].isTrusted
    /\ \E r \in PoolOf(gw) :
          getPeerWeight(gw.isMaster, objs[r])
              > getPeerWeight(gw.isMaster, objs[gw.results[1][1]])

\* C19: a call getWeighted(0, source) returns every peer of the pool, once.
C19_ZeroReturnsAll ==
    gw.called /\ gw.amount = 0
        => /\ {gw.results[i][1] : i \in 1..Len(gw.results)} = PoolOf(gw)
           /\ Len(gw.results) = Cardinality(PoolOf(gw))

\* The weights of the pool the getWeighted call started from.
PoolWeights(call) ==
    LET peers == IF call.source.given THEN call.source.list ELSE thisPeers
    IN  [i \in 1..Len(peers) |-> getPeerWeight(call.isMaster, objs[peers[i]])]

\* C21: every pair of an untrusted peer that getWeighted returns carries the
\* weight of that peer over the greatest weight of the pool the call started
\* from.
C21_RatioOfPickedPeer ==
    gw.called
        => \A i \in 1..Len(gw.results) :
              ~objs[gw.results[i][1]].isTrusted
                 => gw.results[i][2] =
                       Ratio(getPeerWeight(gw.isMaster, objs[gw.results[i][1]]),
                             MaxOf(PoolWeights(gw)))

\* C22: a call of getWeighted leaves the source list it was given, and the
\* peers of the list, as they were: the same peers in the same order.
C22_SamplesFromCopy ==
    [][gw'.called /\ ~gw.called
          => /\ thisPeers' = thisPeers
             /\ gw'.source.given => gw'.sourceAfter = gw'.source.list]_vars

\* C23: once a start() call has resolved, no step changes the static neighbors.
C23_StaticWrittenOnce ==
    [][(\E c \in 1..Len(starts) : starts[c].pc = "resolved")
          => staticNeighbors' = staticNeighbors]_vars
====
